---- MODULE Spec2Model ----
(***************************************************************************)
(* A model of src/sqlalchemy.py: the SqlAlchemy data-access class.         *)
(*                                                                         *)
(* The relational engine is modelled by what the statements the class      *)
(* builds mean: a table is the sequence of its rows in the engine's scan   *)
(* order, a WHERE clause keeps the rows on which every predicate is TRUE   *)
(* (SQL's three-valued logic: a comparison with NULL is not TRUE), ORDER   *)
(* BY is a stable sort with PostgreSQL's NULL placement (last ascending,   *)
(* first descending) and LIMIT keeps a prefix.                             *)
(*                                                                         *)
(* Python's optional values are modelled as sequences of length <= 1:      *)
(* None is << >> and a present value x is << x >>.  A table cell is the    *)
(* same: NULL is << >> and the integer n is << n >>.                       *)
(***************************************************************************)
EXTENDS Integers, Sequences, FiniteSets, TLC

\* ------------------------------------------------------------------ bounds
\* The longest table of the read model.
MaxRows == 2
\* read_table's default limit.
DefaultLimit == 10000

\* ------------------------------------------------------------ option values
None == << >>
Some(x) == << x >>
Get(o) == o[1]
\* The elements of a list.
Range(f) == {f[k] : k \in DOMAIN f}

\* The integers a cell or a bound may hold; 0 is Python's falsy integer.
Vals == (0 - 1) .. 1
Cells == {None} \cup {Some(v) : v \in Vals}

\* Python truthiness of a None-or-integer value (sqlalchemy.py:207-211).
Truthy(x) == x # None /\ Get(x) # 0

\* ------------------------------------------------------------ the read table
\* The reflected columns of the table read_table reads, in table order.
TblCols == << "id", "a" >>
ColNames == {TblCols[i] : i \in 1 .. Len(TblCols)}
\* The one table of the schema; any other name is not reflected.
TblName == "t"
RowSet == [ColNames -> Cells]

\* ------------------------------------------------------------ SQL predicates
\* One element of read_table's `conditions` list.
Cond(kind, col, x, y, set) ==
    [kind |-> kind, col |-> col, x |-> x, y |-> y, set |-> set]

\* Whether the engine keeps `row` under predicate `c`.
Holds(c, row) ==
    LET v == row[c.col] IN
    CASE c.kind = "isnull"  -> v = None
      [] c.kind = "notnull" -> v # None
      [] OTHER ->
           /\ v # None
           /\ CASE c.kind = "between" -> c.x <= Get(v) /\ Get(v) <= c.y
                [] c.kind = "ge" -> Get(v) >= c.x
                [] c.kind = "le" -> Get(v) <= c.x
                [] c.kind = "gt" -> Get(v) > c.x
                [] c.kind = "eq" -> Get(v) = c.x
                [] c.kind = "in" -> Get(v) \in c.set

HoldsAll(conds, row) == \A k \in 1 .. Len(conds) : Holds(conds[k], row)

\* tbl.c[col] == value: SQLAlchemy renders a comparison with None as IS NULL.
EqCond(col, v) ==
    IF v = None THEN Cond("isnull", col, 0, 0, {})
    ELSE Cond("eq", col, Get(v), 0, {})

\* ------------------------------------------------------------ read_table
\* The keyword defaults of read_table's signature.
DefaultArgs ==
    [table_name |-> TblName, columns |-> None, order_by_col |-> None,
     order_by_asc |-> TRUE, after_last_col |-> None, after_val |-> None,
     null_cols |-> None, non_null_cols |-> None, equals_col |-> None,
     equals_val |-> None, equals_dct |-> None, col_in_arr |-> None,
     between_col |-> None, between_arr |-> None, limit |-> Some(DefaultLimit)]

\* The composer's locals while the directives are read in turn: the error raised
\* so far ("" for none), the `conditions` list, and the binding of the local
\* `conditions_equals` (None while it is unbound).
Acc0 == [err |-> "", conditions |-> << >>, ce |-> None]
Raise(acc, e) == [acc EXCEPT !.err = e]
Add(acc, conds) == [acc EXCEPT !.conditions = acc.conditions \o conds]

\* The projection list: `columns`, or every reflected column.
Projection(args) ==
    IF args.columns # None THEN Get(args.columns) ELSE TblCols

\* getattr(tbl.c, col_name) for every projected column.
StepSelect(args, acc) ==
    IF \E k \in 1 .. Len(Projection(args)) : Projection(args)[k] \notin ColNames
    THEN Raise(acc, "AttributeError")
    ELSE acc

\* The predicate of a between directive whose bounds are start and end, when
\* one of the three branches is taken.
BetweenBranch(col, start, end) ==
    IF Truthy(start) /\ Truthy(end)
    THEN Some(Cond("between", col, Get(start), Get(end), {}))
    ELSE IF Truthy(start) THEN Some(Cond("ge", col, Get(start), 0, {}))
    ELSE IF Truthy(end) THEN Some(Cond("le", col, Get(end), 0, {}))
    ELSE None

StepBetween(args, acc) ==
    IF acc.err # "" THEN acc
    ELSE IF /\ args.between_col # None
            /\ args.between_arr # None
            /\ Len(Get(args.between_arr)) = 2
    THEN LET col == Get(args.between_col)
             arr == Get(args.between_arr)
             b   == BetweenBranch(col, arr[1], arr[2])
         IN  IF b = None THEN Raise(acc, "UnboundLocalError")
             ELSE IF col \notin ColNames THEN Raise(acc, "KeyError")
             ELSE Add(acc, b)
    ELSE acc

\* tbl.c[after_last_col] > after_val.
AfterCond(col, v) == Cond("gt", col, v, 0, {})

\* What the try block of the after-cursor directive raises: a KeyError for a
\* column the table has not, an ArgumentError for an ordering against None.
AfterRaises(args) ==
    \/ Get(args.after_last_col) \notin ColNames
    \/ args.after_val = None

\* The directive without its try/except: the exception leaves read_table.
AfterExceptMissing(args, acc) == Raise(acc, "KeyError")

\* The bare except swallows whatever the try block raises.
AfterExcept(args, acc) == acc

StepAfter(args, acc) ==
    IF acc.err # "" THEN acc
    ELSE IF args.after_last_col # None
    THEN IF AfterRaises(args) THEN AfterExcept(args, acc)
         ELSE Add(acc, << AfterCond(Get(args.after_last_col), Get(args.after_val)) >>)
    ELSE acc

\* The null checks over the columns the directive names.
NullCheckNamed(args, named) == named

\* The columns the null and the non-null directive range over.
NullCheckCols(args, named) == Projection(args)

StepNull(args, acc) ==
    IF acc.err # "" THEN acc
    ELSE IF args.null_cols # None
    THEN LET cs == NullCheckCols(args, Get(args.null_cols))
         IN  Add(acc, [k \in 1 .. Len(cs) |-> Cond("isnull", cs[k], 0, 0, {})])
    ELSE acc

StepNonNull(args, acc) ==
    IF acc.err # "" THEN acc
    ELSE IF args.non_null_cols # None
    THEN LET cs == NullCheckCols(args, Get(args.non_null_cols))
         IN  Add(acc, [k \in 1 .. Len(cs) |-> Cond("notnull", cs[k], 0, 0, {})])
    ELSE acc

StepEquals(args, acc) ==
    IF acc.err # "" THEN acc
    ELSE IF args.equals_col # None /\ args.equals_val # None
    THEN IF Get(args.equals_col) \notin ColNames THEN Raise(acc, "KeyError")
         ELSE LET ce == << EqCond(Get(args.equals_col), args.equals_val) >>
              IN  [Add(acc, ce) EXCEPT !.ce = Some(ce)]
    ELSE acc

\* The loop accumulating one predicate per entry of the map.
EqualsDctAll(dct) == [k \in 1 .. Len(dct) |-> EqCond(dct[k][1], dct[k][2])]

\* The binding of conditions_equals after the loop over a non-empty map of
\* (column, value) pairs in iteration order: each pass rebinds it.
EqualsDctConds(dct) ==
    << EqCond(dct[Len(dct)][1], dct[Len(dct)][2]) >>

StepEqualsDct(args, acc) ==
    IF acc.err # "" THEN acc
    ELSE IF args.equals_dct # None
    THEN LET dct == Get(args.equals_dct) IN
         IF \E k \in 1 .. Len(dct) : dct[k][1] \notin ColNames
         THEN Raise(acc, "KeyError")
         ELSE IF dct # << >> THEN Add(acc, EqualsDctConds(dct))
         ELSE IF acc.ce # None THEN Add(acc, Get(acc.ce))
         ELSE Raise(acc, "UnboundLocalError")
    ELSE acc

StepInArr(args, acc) ==
    IF acc.err # "" THEN acc
    ELSE IF args.col_in_arr # None
    THEN LET p == Get(args.col_in_arr) IN
         IF p[1] \notin ColNames THEN Raise(acc, "KeyError")
         ELSE Add(acc, << Cond("in", p[1], 0, 0, p[2]) >>)
    ELSE acc

StepOrderCheck(args, acc) ==
    IF acc.err # "" THEN acc
    ELSE IF args.order_by_col # None /\ Get(args.order_by_col) \notin ColNames
    THEN Raise(acc, "KeyError")
    ELSE acc

\* The directives in the order the code reads them.
Compose(args) ==
    StepOrderCheck(args,
      StepInArr(args,
        StepEqualsDct(args,
          StepEquals(args,
            StepNonNull(args,
              StepNull(args,
                StepAfter(args,
                  StepBetween(args,
                    StepSelect(args, Acc0)))))))))

\* WHERE and_(*conditions); an empty list adds no WHERE clause.
Where(tab, conds) == SelectSeq(tab, LAMBDA r : HoldsAll(conds, r))

\* Whether row r sorts strictly before row q on column col.
Before(r, q, col, asc) ==
    IF asc
    THEN /\ r[col] # None
         /\ (q[col] = None \/ Get(r[col]) < Get(q[col]))
    ELSE /\ q[col] # None
         /\ (r[col] = None \/ Get(r[col]) > Get(q[col]))

\* x put into the sorted s after every row it does not sort strictly before.
SortInsert(s, x, col, asc) ==
    LET ps == {p \in 1 .. Len(s) : Before(x, s[p], col, asc)}
        at == IF ps = {} THEN Len(s) + 1
              ELSE CHOOSE p \in ps : \A q \in ps : p <= q
    IN  SubSeq(s, 1, at - 1) \o << x >> \o SubSeq(s, at, Len(s))

RECURSIVE SortBy(_, _, _)
SortBy(s, col, asc) ==
    IF s = << >> THEN << >>
    ELSE SortInsert(SortBy(SubSeq(s, 1, Len(s) - 1), col, asc), s[Len(s)], col, asc)

OrderBy(tab, args) ==
    IF args.order_by_col # None
    THEN SortBy(tab, Get(args.order_by_col), args.order_by_asc = TRUE)
    ELSE tab

\* A limit that keeps one row too many.
ApplyLimitOffByOne(tab, limit) ==
    IF limit # None
    THEN SubSeq(tab, 1, IF Get(limit) + 1 < Len(tab) THEN Get(limit) + 1 ELSE Len(tab))
    ELSE tab

\* source_query.limit(limit) when limit is not None.
ApplyLimit(tab, limit) ==
    IF limit # None
    THEN SubSeq(tab, 1, IF Get(limit) < Len(tab) THEN Get(limit) ELSE Len(tab))
    ELSE tab

\* The DataFrame's rows: the projected cells of each row, in projection order.
Project(tab, cols) ==
    [k \in 1 .. Len(tab) |-> [j \in 1 .. Len(cols) |-> tab[k][cols[j]]]]

Failed(e) == [ok |-> FALSE, err |-> e, cols |-> << >>, rows |-> << >>]
Frame(cols, rs) == [ok |-> TRUE, err |-> "", cols |-> cols, rows |-> rs]

\* read_table(**args) against the table content tab.
read_table(tab, args) ==
    IF args.table_name # TblName THEN Failed("NoSuchTableError")
    ELSE LET acc == Compose(args) IN
         IF acc.err # "" THEN Failed(acc.err)
         ELSE Frame(Projection(args),
                    Project(ApplyLimit(OrderBy(Where(tab, acc.conditions), args),
                                       args.limit),
                            Projection(args)))

\* get_first_row_after(table_name, col, value): the query is
\* select(tbl).order_by(desc(tbl.c.id)).limit(1); fetchone() of an empty result
\* is None, which zip() rejects.
get_first_row_after(tab, table_name, col, value) ==
    IF table_name # TblName
    THEN [ok |-> FALSE, err |-> "NoSuchTableError", row |-> None]
    ELSE LET hit == ApplyLimit(SortBy(tab, "id", FALSE), Some(1)) IN
         IF hit = << >> THEN [ok |-> FALSE, err |-> "TypeError", row |-> None]
         ELSE [ok |-> TRUE, err |-> "", row |-> Some(hit[1])]

\* ------------------------------------------------------------ state
VARIABLES
    rows,      \* the read table's rows, in the engine's scan order
    op,        \* the reader: "idle", or the method whose result it holds
    args,      \* the arguments of that call
    result,    \* what the call returned or raised
    fees,      \* the committed rows of the table batch_update_table updates
    work,      \* the rows as the open transaction sees them
    bpc,       \* where batch_update_table stands
    call,      \* its arguments: arr_rows, col_merge, batch_size
    off,       \* the offset of the current batch in arr_rows
    pos,       \* the rows of the current batch already updated
    log,       \* the UPDATE statements executed, in order
    fees0,     \* the committed rows when the call began
    schema,    \* self.schema
    dbcols,    \* per schema, the columns of the table in the database
    meta,      \* self.metadata: per schema, the columns of the cached Table
    cop,       \* the schema caller: "idle", or the method that last returned
    cres,      \* that call's arguments and outcome
    added      \* the columns the calls of this instance have added so far

readVars == << rows, op, args, result >>
batchVars == << fees, work, bpc, call, off, pos, log, fees0 >>
colVars == << schema, dbcols, meta, cop, cres, added >>
vars == << rows, op, args, result, fees, work, bpc, call, off, pos, log, fees0,
           schema, dbcols, meta, cop, cres, added >>

NoArgs == [table_name |-> TblName]
NoResult == [ok |-> TRUE, err |-> ""]

\* ------------------------------------------------------------ inputs
ColChoices ==
    {None, Some(<< "id" >>), Some(<< "a" >>), Some(<< "id", "a" >>),
     Some(<< "a", "id" >>)}
OrderChoices ==
    {<< None, TRUE >>, << Some("id"), TRUE >>, << Some("id"), FALSE >>,
     << Some("a"), TRUE >>, << Some("a"), FALSE >>}
Limits == {None, Some(DefaultLimit)} \cup {Some(n) : n \in 0 .. MaxRows}

\* Calls with no filter directive.
PlainArgs ==
    {[DefaultArgs EXCEPT !.columns = c, !.order_by_col = o[1],
                         !.order_by_asc = o[2], !.limit = l] :
        c \in ColChoices, o \in OrderChoices, l \in Limits}
    \cup {[DefaultArgs EXCEPT !.table_name = "missing"]}

\* Calls whose only directive is between; "zz" is no column of the table.
BetweenArrs ==
    {None, Some(<< Some(0) >>)} \cup {Some(<< lo, hi >>) : lo \in Cells, hi \in Cells}
BetweenArgs ==
    {[DefaultArgs EXCEPT !.between_col = Some(c), !.between_arr = b] :
        c \in ColNames \cup {"zz"}, b \in BetweenArrs}

\* Calls with an after-cursor directive added to some other call.
AfterBases ==
    {DefaultArgs,
     [DefaultArgs EXCEPT !.equals_col = Some("a"), !.equals_val = Some(1)],
     [DefaultArgs EXCEPT !.order_by_col = Some("id"), !.order_by_asc = FALSE,
                         !.limit = Some(1)],
     [DefaultArgs EXCEPT !.col_in_arr = Some(<< "id", {0, 1} >>)]}
AfterArgs ==
    {[b EXCEPT !.after_last_col = Some(c), !.after_val = v] :
        b \in AfterBases, c \in ColNames \cup {"zz"}, v \in Cells}

\* Calls with the null and non-null directives over each projection.
NamedLists == {None, Some(<< >>), Some(<< "id" >>), Some(<< "a" >>)}
NullArgs ==
    {[DefaultArgs EXCEPT !.columns = c, !.null_cols = n, !.non_null_cols = m] :
        c \in ColChoices, n \in NamedLists, m \in NamedLists}

\* Calls with an equals-map: a dict is its (column, value) pairs in insertion
\* order, no column twice; with and without the single equals pair.
Pairs == {<< c, v >> : c \in ColNames, v \in Cells} \cup {<< "zz", Some(0) >>}
Dcts ==
    {<< >>} \cup {<< p >> : p \in Pairs}
    \cup {d \in {<< p, q >> : p \in Pairs, q \in Pairs} : d[1][1] # d[2][1]}
EqualsArgs ==
    {[DefaultArgs EXCEPT !.equals_dct = Some(d), !.equals_col = e[1],
                         !.equals_val = e[2]] :
        d \in Dcts, e \in {<< None, None >>, << Some("id"), Some(0) >>}}

\* ------------------------------------------------------------ actions
\* add_records_to_table(table_name, record_arr): an INSERT of the records.
add_records_to_table(record_arr) ==
    /\ Len(rows) + Len(record_arr) <= MaxRows
    /\ rows' = rows \o record_arr
    /\ UNCHANGED << op, args, result >>

\* clear_table(table_name): DELETE without a WHERE clause.
clear_table ==
    /\ op = "idle"
    /\ rows' = << >>
    /\ UNCHANGED << op, args, result, batchVars, colVars >>

\* read_table(**a): the caller then holds the DataFrame or the exception.
ReadTable(a) ==
    /\ op' = "read_table"
    /\ args' = a
    /\ result' = read_table(rows, a)
    /\ UNCHANGED rows

GetFirstRowAfter(col, value) ==
    /\ op' = "get_first_row_after"
    /\ args' = [table_name |-> TblName, col |-> col, value |-> value]
    /\ result' = get_first_row_after(rows, TblName, col, value)
    /\ UNCHANGED rows

\* The caller is done with what the last call returned.
Return ==
    /\ op # "idle"
    /\ op' = "idle"
    /\ args' = NoArgs
    /\ result' = NoResult
    /\ UNCHANGED << rows, batchVars, colVars >>

Insert ==
    /\ op = "idle"
    /\ \E r \in RowSet : add_records_to_table(<< r >>)
    /\ UNCHANGED << batchVars, colVars >>
ReadPlain ==
    /\ op = "idle"
    /\ \E a \in PlainArgs : ReadTable(a)
    /\ UNCHANGED << batchVars, colVars >>
ReadBetween ==
    /\ op = "idle"
    /\ \E a \in BetweenArgs : ReadTable(a)
    /\ UNCHANGED << batchVars, colVars >>
ReadAfter ==
    /\ op = "idle"
    /\ \E a \in AfterArgs : ReadTable(a)
    /\ UNCHANGED << batchVars, colVars >>
ReadNull ==
    /\ op = "idle"
    /\ \E a \in NullArgs : ReadTable(a)
    /\ UNCHANGED << batchVars, colVars >>
ReadEquals ==
    /\ op = "idle"
    /\ \E a \in EqualsArgs : ReadTable(a)
    /\ UNCHANGED << batchVars, colVars >>
FirstRowAfter ==
    /\ op = "idle"
    /\ \E c \in ColNames, v \in Vals : GetFirstRowAfter(c, v)
    /\ UNCHANGED << batchVars, colVars >>

\* ------------------------------------------------------------ batch_update_table
\* The method runs step by step: one step per row's UPDATE, one per
\* conn.commit(), one for leaving the with block.  The connection's
\* transaction works on its own copy of the table (work); conn.commit() makes
\* that copy durable (fees), an exception leaving the with block discards it.
\* Any conn.execute() may also be rejected by the engine or the driver.
\* The longest arr_rows and the largest batch_size of the batch model.
MaxArr == 3
MaxBatch == 2

\* The values of the id and key columns.
Keys == 1 .. 2

\* The table before the call: id is its primary key, key a second column a
\* caller may merge on, the two fee columns not yet set.
FeeTables ==
    {<< [id |-> 1, key |-> k1, fee_price |-> 0, fee_value |-> 0],
        [id |-> 2, key |-> k2, fee_price |-> 0, fee_value |-> 0] >> :
        k1 \in Keys, k2 \in Keys}

\* The dicts of arr_rows: complete ones, and one that lacks 'fee_price'.
ArrRowSet ==
    {[id |-> i, key |-> k, fee_price |-> 1, fee_value |-> 2] : i \in Keys, k \in Keys}
    \cup {[id |-> 1, key |-> 1, fee_value |-> 2]}

RECURSIVE SeqsUpTo(_, _)
SeqsUpTo(S, n) ==
    IF n = 0 THEN {<< >>}
    ELSE LET shorter == SeqsUpTo(S, n - 1)
         IN  shorter \cup {Append(q, x) : q \in {t \in shorter : Len(t) = n - 1}, x \in S}

\* The column of the UPDATE's WHERE clause: tbl.c.id.
WhereCol(col_merge) == "id"

\* The rows of tab the statement built from `row` updates.
Matched(tab, row, col_merge) ==
    {j \in 1 .. Len(tab) : tab[j][WhereCol(col_merge)] = row[col_merge]}

\* sql.update(tbl).where(...).values(fee_price=..., fee_value=...), executed.
Update(tab, row, col_merge) ==
    [j \in 1 .. Len(tab) |->
        IF j \in Matched(tab, row, col_merge)
        THEN [tab[j] EXCEPT !.fee_price = row.fee_price, !.fee_value = row.fee_value]
        ELSE tab[j]]

\* Building the statement raises KeyError when the dict lacks a key it reads.
RowRaises(row, col_merge) ==
    ~ ({col_merge, "fee_price", "fee_value"} \subseteq DOMAIN row)

\* i_high of the current batch.
IHigh ==
    LET total == Len(call.arr_rows)
        rest  == total - off
    IN  off + (IF call.batch_size < rest THEN call.batch_size ELSE rest)

\* A batch loop without conn.commit(): nothing becomes durable at a batch end.
CommittedNothing(durable, pending) == durable

\* What is durable after conn.commit(): the transaction's rows.
Committed(durable, pending) == pending

FeesInit ==
    /\ fees \in FeeTables
    /\ work = fees
    /\ fees0 = fees
    /\ bpc = "idle"
    /\ call = [arr_rows |-> << >>, col_merge |-> "id", batch_size |-> 1]
    /\ off = 0
    /\ pos = 0
    /\ log = << >>

\* The call: engine.begin() opens the transaction; range(0, total_rows,
\* batch_size) is empty for an empty arr_rows.
batch_update_table(arr, cm, bs) ==
    /\ call' = [arr_rows |-> arr, col_merge |-> cm, batch_size |-> bs]
    /\ work' = fees
    /\ fees0' = fees
    /\ off' = 0
    /\ pos' = 0
    /\ log' = << >>
    /\ bpc' = IF Len(arr) = 0 THEN "exit" ELSE "row"
    /\ UNCHANGED fees

ArrSeqs == SeqsUpTo(ArrRowSet, MaxArr)

BatchCall ==
    /\ bpc = "idle"
    /\ \E arr \in ArrSeqs, cm \in {"id", "key"}, bs \in 1 .. MaxBatch :
          batch_update_table(arr, cm, bs)
    /\ UNCHANGED << readVars, colVars >>

\* One pass of `for row in sub_arr_rows`: the statement is built and executed,
\* or building it raises and the with block rolls the transaction back.
UpdateRow ==
    /\ bpc = "row"
    /\ LET i   == off + pos + 1
           row == call.arr_rows[i]
       IN  IF RowRaises(row, call.col_merge)
           THEN /\ bpc' = "failed"
                /\ work' = fees
                /\ UNCHANGED << log, pos >>
           ELSE /\ work' = Update(work, row, call.col_merge)
                /\ log' = Append(log, [row |-> i, batch |-> off \div call.batch_size,
                                        matched |-> Matched(work, row, call.col_merge)])
                /\ pos' = pos + 1
                /\ bpc' = IF i = IHigh THEN "commit" ELSE "row"
    /\ UNCHANGED << fees, call, off, fees0, readVars, colVars >>

\* conn.execute(stmt) raises (the engine rejects the statement, the connection
\* is lost): the exception leaves the with block, which rolls back.
ExecuteFails ==
    /\ bpc = "row"
    /\ bpc' = "failed"
    /\ work' = fees
    /\ UNCHANGED << fees, call, off, pos, log, fees0, readVars, colVars >>

\* conn.commit() at the end of a batch, then the next offset of the range.
CommitBatch ==
    /\ bpc = "commit"
    /\ fees' = Committed(fees, work)
    /\ off' = off + call.batch_size
    /\ pos' = 0
    /\ bpc' = IF off + call.batch_size < Len(call.arr_rows) THEN "row" ELSE "exit"
    /\ UNCHANGED << work, call, log, fees0, readVars, colVars >>

\* Leaving `with self.engine.begin()` without an exception commits what the
\* transaction still holds.
ExitBlock ==
    /\ bpc = "exit"
    /\ fees' = work
    /\ bpc' = "done"
    /\ UNCHANGED << work, call, off, pos, log, fees0, readVars, colVars >>

\* ------------------------------------------------------------ add_columns_to_table
\* The database holds the table once per schema.  self.metadata keeps the
\* Table objects it has built: Table(name, metadata, schema=...) returns the one
\* it holds and reflects the database only when it holds none.  The ALTERs of
\* one call run in one transaction (PostgreSQL rolls DDL back).
\* The longest `columns` list of the schema model.
MaxList == 2

Schemas == {"flights", "twoprime"}
\* The schema check_if_columns_in_table reflects the table from.
CheckSchema == "twoprime"
\* The columns a table has before any is added, and those a call may list.
BaseCols == {"id"}
NewCols == {"x", "y"}

\* No call yet: the names listed, the columns of the table of self.schema and
\* those this instance had added when the call began, the ALTERs issued and
\* the error raised ("" for none).
NoCall == [listed |-> << >>, pre |-> None, mine |-> {}, alters |-> << >>, err |-> ""]

\* __init__: MetaData(schema=self.schema).reflect() caches the schema's tables.
Reflect(sch, db) == [s \in Schemas |-> IF s = sch THEN db[s] ELSE None]

ColsInit ==
    /\ schema \in Schemas
    /\ dbcols \in [Schemas -> {None, Some(BaseCols), Some(BaseCols \cup {"x"})}]
    /\ meta = Reflect(schema, dbcols)
    /\ cop = "idle"
    /\ cres = NoCall
    /\ added = {}

\* Table(table_name, self.metadata, schema=sch, autoload_with=engine): the
\* cached Table when the MetaData holds one, else the table as reflected now.
\* None when there is no such table.
TableOf(sch) == IF meta[sch] # None THEN meta[sch] ELSE dbcols[sch]

\* check_if_columns_in_table: whether each name is a column of the Table.
check_if_columns_in_table(column_names) ==
    LET tbl == TableOf(CheckSchema)
    IN  [k \in 1 .. Len(column_names) |-> column_names[k] \in Get(tbl)]

\* The loop over `columns` from position k in one transaction on the table of
\* self.schema with columns cur: an ALTER for each name the check found
\* missing; the engine rejects an ALTER of a missing table or of a column the
\* table has.
RECURSIVE RunAlters(_, _, _, _, _)
RunAlters(names, found, k, cur, issued) ==
    IF k > Len(names) THEN [err |-> "", cols |-> cur, alters |-> issued]
    ELSE IF found[k] THEN RunAlters(names, found, k + 1, cur, issued)
    ELSE IF cur = None
    THEN [err |-> "UndefinedTable", cols |-> cur, alters |-> Append(issued, names[k])]
    ELSE IF names[k] \in Get(cur)
    THEN [err |-> "DuplicateColumn", cols |-> cur, alters |-> Append(issued, names[k])]
    ELSE RunAlters(names, found, k + 1, Some(Get(cur) \cup {names[k]}),
                   Append(issued, names[k]))

\* add_columns_to_table(table_name, columns); names are the 'name' entries.
add_columns_to_table(names) ==
    /\ cop' = "add_columns_to_table"
    /\ IF TableOf(CheckSchema) = None
       THEN /\ cres' = [listed |-> names, pre |-> dbcols[schema], mine |-> added,
                        alters |-> << >>, err |-> "NoSuchTableError"]
            /\ UNCHANGED << dbcols, meta, added >>
       ELSE LET run == RunAlters(names, check_if_columns_in_table(names), 1,
                                 dbcols[schema], << >>)
            IN  /\ meta' = [meta EXCEPT ![CheckSchema] = TableOf(CheckSchema)]
                /\ dbcols' = IF run.err = "" THEN [dbcols EXCEPT ![schema] = run.cols]
                              ELSE dbcols
                /\ added' = IF run.err = "" THEN added \cup Range(run.alters)
                             ELSE added
                /\ cres' = [listed |-> names, pre |-> dbcols[schema], mine |-> added,
                            alters |-> run.alters, err |-> run.err]
    /\ UNCHANGED schema

NameLists == SeqsUpTo(NewCols, MaxList)

AddColumns ==
    /\ \E names \in NameLists : add_columns_to_table(names)
    /\ UNCHANGED << readVars, batchVars >>

\* ------------------------------------------------------------ specifications
\* Each specification runs one part of the class; the state of the others
\* stays as constructed.
IdleRead ==
    /\ rows = << >>
    /\ op = "idle"
    /\ args = NoArgs
    /\ result = NoResult
IdleBatch ==
    /\ fees = << >>
    /\ work = << >>
    /\ fees0 = << >>
    /\ bpc = "idle"
    /\ call = [arr_rows |-> << >>, col_merge |-> "id", batch_size |-> 1]
    /\ off = 0
    /\ pos = 0
    /\ log = << >>
IdleCols ==
    /\ schema = "flights"
    /\ dbcols = [s \in Schemas |-> None]
    /\ meta = [s \in Schemas |-> None]
    /\ cop = "idle"
    /\ cres = NoCall
    /\ added = {}

\* The read model starts from the empty table.
InitRead == IdleRead /\ IdleBatch /\ IdleCols

\* Reads with between and equals-map directives.
NextFilter == Insert \/ clear_table \/ Return \/ ReadBetween \/ ReadEquals
SpecFilter == InitRead /\ [][NextFilter]_vars

\* Reads with after-cursor and null directives.
NextCursor == Insert \/ clear_table \/ Return \/ ReadAfter \/ ReadNull
SpecCursor == InitRead /\ [][NextCursor]_vars

\* Reads with no directive, and get_first_row_after.
NextPlain == Insert \/ clear_table \/ Return \/ ReadPlain \/ FirstRowAfter
SpecPlain == InitRead /\ [][NextPlain]_vars

\* One call of batch_update_table on each table of FeeTables.
InitBatch == FeesInit /\ IdleRead /\ IdleCols
NextBatch == BatchCall \/ UpdateRow \/ ExecuteFails \/ CommitBatch \/ ExitBlock
SpecBatch == InitBatch /\ [][NextBatch]_vars

\* Calls of add_columns_to_table on one instance.
InitCols == ColsInit /\ IdleRead /\ IdleBatch
NextCols == AddColumns
SpecCols == InitCols /\ [][NextCols]_vars

\* ------------------------------------------------------------ properties
\* The position of column c in a DataFrame's column list.
ColIndex(cols, c) == CHOOSE j \in 1 .. Len(cols) : cols[j] = c
\* The cell of column c in row k of the call's DataFrame.
Cell(k, c) == result.rows[k][ColIndex(result.cols, c)]
Min(a, b) == IF a < b THEN a ELSE b

\* The call has no filter directive.
NoFilter(a) ==
    /\ a.after_last_col = None /\ a.null_cols = None /\ a.non_null_cols = None
    /\ a.equals_col = None /\ a.equals_dct = None /\ a.col_in_arr = None
    /\ a.between_col = None /\ a.between_arr = None

\* The call's only directive is between, on a column of the table, with a
\* two-element array.
OnlyBetween(a) ==
    /\ NoFilter([a EXCEPT !.between_col = None, !.between_arr = None])
    /\ a.between_col # None /\ Get(a.between_col) \in ColNames
    /\ a.between_arr # None /\ Len(Get(a.between_arr)) = 2
    /\ a.order_by_col = None /\ a.columns = None

\* C1: a read whose only directive is between (col, [a, b]) returns only rows
\* with row[col] >= a when a is present and row[col] <= b when b is present,
\* whatever the value of a present bound (0 included).
C1_BetweenBounds ==
    (op = "read_table" /\ OnlyBetween(args)) =>
        LET c  == Get(args.between_col)
            lo == Get(args.between_arr)[1]
            hi == Get(args.between_arr)[2]
        IN  \A k \in 1 .. Len(result.rows) :
                /\ lo # None => (Cell(k, c) # None /\ Get(lo) <= Get(Cell(k, c)))
                /\ hi # None => (Cell(k, c) # None /\ Get(Cell(k, c)) <= Get(hi))

\* C2: with an after-cursor (col, v) on a column of the table every returned
\* row has row[col] > v; on a name that is no column the call returns what the
\* same call without the after-cursor returns, and does not fail.
C2_AfterCursor ==
    (op = "read_table" /\ args.after_last_col # None) =>
        LET c == Get(args.after_last_col)
            omitted == [args EXCEPT !.after_last_col = None, !.after_val = None]
        IN  IF c \in ColNames
            THEN (args.after_val # None /\ result.ok) =>
                    \A k \in 1 .. Len(result.rows) :
                        /\ Cell(k, c) # None
                        /\ Get(Cell(k, c)) > Get(args.after_val)
            ELSE result.ok /\ result = read_table(rows, omitted)

\* A cursor on a missing column, beside an equality directive that keeps one
\* of the table's two rows.
C2_Witness ==
    /\ op = "read_table"
    /\ args.after_last_col = Some("zz")
    /\ args.equals_col # None
    /\ Len(rows) = 2
    /\ result.ok /\ Len(result.rows) = 1

\* The rows a (column, value) equality keeps: value None is IS NULL.
EqMatch(r, c, v) == IF v = None THEN r[c] = None ELSE r[c] = v

\* C3: an equals-map with one or more entries adds the equality predicate of
\* its last entry and no other: the call returns exactly the rows that match
\* the last entry (and the single equals pair, when given), whatever the
\* earlier entries say.
C3_EqualsMapLast ==
    (/\ op = "read_table"
     /\ args.equals_dct # None
     /\ Get(args.equals_dct) # << >>
     /\ \A k \in 1 .. Len(Get(args.equals_dct)) : Get(args.equals_dct)[k][1] \in ColNames) =>
        LET d    == Get(args.equals_dct)
            last == d[Len(d)]
            sel  == SelectSeq(rows, LAMBDA r :
                        /\ EqMatch(r, last[1], last[2])
                        /\ args.equals_col # None =>
                               EqMatch(r, Get(args.equals_col), args.equals_val))
        IN  /\ result.ok
            /\ result.cols = TblCols
            /\ result.rows = [k \in 1 .. Len(sel) |-> << sel[k]["id"], sel[k]["a"] >>]

\* A two-entry map and a returned row that differs from the first entry.
C3_Witness ==
    /\ op = "read_table"
    /\ args.equals_dct # None
    /\ Len(Get(args.equals_dct)) = 2
    /\ result.ok
    /\ \E k \in 1 .. Len(result.rows) :
          Cell(k, Get(args.equals_dct)[1][1]) # Get(args.equals_dct)[1][2]

C5_PlainRead ==
    (op = "read_table" /\ NoFilter(args) /\ args.table_name = TblName) =>
        LET cols == IF args.columns # None THEN Get(args.columns) ELSE TblCols
        IN  /\ result.ok
            /\ result.cols = cols
            /\ args.limit # None => Len(result.rows) <= Get(args.limit)
            /\ Len(result.rows) = IF args.limit = None THEN Len(rows)
                                   ELSE Min(Get(args.limit), Len(rows))
            /\ \A k \in 1 .. Len(result.rows) :
                  /\ Len(result.rows[k]) = Len(cols)
                  /\ \E i \in 1 .. Len(rows) :
                        \A j \in 1 .. Len(cols) : result.rows[k][j] = rows[i][cols[j]]

\* A limit of 1 on a table of two rows, the columns asked for in reverse.
C5_Witness ==
    /\ op = "read_table"
    /\ NoFilter(args)
    /\ args.limit = Some(1)
    /\ args.columns = Some(<< "a", "id" >>)
    /\ Len(rows) = 2
    /\ Len(result.rows) = 1

\* The table after the updates of the dicts rs, in order.
RECURSIVE ApplyRows(_, _, _)
ApplyRows(tab, rs, cm) ==
    IF rs = << >> THEN tab
    ELSE ApplyRows(Update(tab, Head(rs), cm), Tail(rs), cm)

\* C6: the rows are updated in list order, batch after batch; when a row of
\* batch k fails the table holds the updates of all batches before k and no
\* others, and no row after the failing one has been attempted.
C6_PartialProgress ==
    /\ \A n \in 1 .. Len(log) :
          /\ log[n].row = n
          /\ log[n].batch = (n - 1) \div call.batch_size
    /\ bpc = "failed" =>
          /\ fees = ApplyRows(fees0, SubSeq(call.arr_rows, 1, off), call.col_merge)
          /\ Len(log) = off + pos
          /\ off + pos < Len(call.arr_rows)
          /\ \A n \in 1 .. Len(log) : log[n].batch <= off \div call.batch_size

\* A failure after a committed batch that changed the table, with a batch
\* still to come.
C6_Witness ==
    /\ bpc = "failed"
    /\ off >= call.batch_size
    /\ fees # fees0
    /\ off + call.batch_size < Len(call.arr_rows)

\* C7: every UPDATE of batch_update_table changes the rows whose col_merge
\* column equals the dict's col_merge value, and a call that ends without an
\* error has executed one UPDATE for each dict of arr_rows, in batches of at
\* most batch_size.
C7_MergeOnColumn ==
    /\ \A n \in 1 .. Len(log) :
          log[n].matched =
              {j \in 1 .. Len(fees0) :
                  fees0[j][call.col_merge] = call.arr_rows[log[n].row][call.col_merge]}
    /\ bpc = "done" =>
          /\ Len(log) = Len(call.arr_rows)
          /\ \A n \in 1 .. Len(log) :
                /\ log[n].row = n
                /\ log[n].batch = (n - 1) \div call.batch_size

\* C8: the row get_first_row_after(table_name, col, value) returns has
\* row[col] > value, and no row of the table with col > value has a smaller
\* col.
C8_FirstRowAfter ==
    (op = "get_first_row_after" /\ result.ok) =>
        LET r == Get(result.row)
            c == args.col
        IN  /\ r[c] # None
            /\ Get(r[c]) > args.value
            /\ \A i \in 1 .. Len(rows) :
                  (rows[i][c] # None /\ Get(rows[i][c]) > args.value) =>
                      Get(r[c]) <= Get(rows[i][c])

\* C9: a call of add_columns_to_table that lists a column an earlier call on
\* the same instance added issues no ALTER for that column and does not fail.
C9_AddOnlyMissing ==
    cop = "add_columns_to_table" =>
        \A k \in 1 .. Len(cres.listed) :
            cres.listed[k] \in cres.mine =>
                /\ cres.listed[k] \notin Range(cres.alters)
                /\ cres.err = ""

\* C10: a between directive whose two bounds are both None, and an empty
\* equals-map, change nothing: the call returns what it returns without the
\* directive, and does not fail because of it.
C10_EmptyDirective ==
    op = "read_table" =>
        /\ args.between_arr = Some(<< None, None >>) =>
              result = read_table(rows, [args EXCEPT !.between_col = None,
                                                     !.between_arr = None])
        /\ args.equals_dct = Some(<< >>) =>
              result = read_table(rows, [args EXCEPT !.equals_dct = None])

====
